---- MODULE Spec2Model ----
(***************************************************************************)
(* A model of the private blockchain ("star registry") of this repository. *)
(* The repository holds two versions of the program:                       *)
(*   "src": src/src/block.js    + src/src/blockchain.js                    *)
(*   "alt": src/unnamed/part_000 + src/unnamed/part_001                    *)
(* (each blockchain file requires the block.js beside it).  The variable   *)
(* `variant` fixes, for a whole behaviour, which of the two is running.    *)
(*                                                                         *)
(* JavaScript runs one job at a time: an action of this model is the code  *)
(* that runs between two await points of one call.                         *)
(***************************************************************************)
EXTENDS Integers, Sequences, FiniteSets, TLC

VARIABLES variant, chain, height, now, calls, origin, tampers

vars == <<variant, chain, height, now, calls, origin, tampers>>

\* variant: which of the two versions runs
\* chain, height: the fields of the Blockchain object
\* now: the clock, in seconds
\* calls: the calls made so far, each with its arguments and its promise
\* origin: origin[i] is the call that pushed chain[i] (history)
\* tampers: the stored fields changed from outside the class (history)

-----------------------------------------------------------------------------
(* Bounds of the model *)

\* number of submitStar calls a behaviour makes
MaxCalls == 2
\* number of outside modifications of a stored block (SpecTamper only)
MaxTampers == 1

(* Program constants *)
WindowSrc == 3000000
WindowAlt == 300

Variants == {"src", "alt"}

\* Strings are sequences of code points: "A", "B" and the stars "a", "é".
Addresses == {<<65>>, <<66>>}
Stars == {<<97>>, <<233>>}

\* null, for a hash; a SHA256 hex string is a 1-tuple holding what was hashed
Null == <<>>

-----------------------------------------------------------------------------
(* Block: payload encoding *)

RECURSIVE Utf8(_)
\* Buffer.from(string): the UTF-8 bytes of a string (code points below 2048)
Utf8(s) ==
  IF s = <<>> THEN <<>>
  ELSE LET c == Head(s)
       IN (IF c < 128 THEN <<c>> ELSE <<192 + (c \div 64), 128 + (c % 64)>>)
          \o Utf8(Tail(s))

RECURSIVE ToHex(_)
\* buffer.toString("hex"): two hex digits per byte
ToHex(bytes) ==
  IF bytes = <<>> THEN <<>>
  ELSE <<Head(bytes) \div 16, Head(bytes) % 16>> \o ToHex(Tail(bytes))

RECURSIVE hex2ascii(_)
\* hex2ascii(hex): one character per pair of hex digits, String.fromCharCode
hex2ascii(hex) ==
  IF Len(hex) < 2 THEN <<>>
  ELSE <<16 * hex[1] + hex[2]>> \o hex2ascii(Tail(Tail(hex)))

\* The data handed to the Block constructor.  JSON.stringify / JSON.parse keep
\* the structure and the (ASCII) punctuation; each string leaf goes through
\* the byte encoding.
GenesisData == [isStar |-> FALSE, star |-> <<>>, address |-> <<>>]
StarData(star, address) == [isStar |-> TRUE, star |-> star, address |-> address]

EncodeBody(data) ==
  [isStar |-> data.isStar,
   star |-> ToHex(Utf8(data.star)),
   address |-> ToHex(Utf8(data.address))]

DecodeBody(body) ==
  [isStar |-> body.isStar,
   star |-> hex2ascii(body.star),
   address |-> hex2ascii(body.address)]

\* new Block(data)
NewBlock(data) ==
  [hash |-> Null, height |-> 0, body |-> EncodeBody(data), time |-> 0,
   previousBlockHash |-> Null]

\* SHA256(JSON.stringify(block)).toString(): an injective digest of the five
\* fields in the order the constructor creates them
SHA256(block) ==
  << [hash |-> block.hash, height |-> block.height, body |-> block.body,
      time |-> block.time, previousBlockHash |-> block.previousBlockHash] >>

-----------------------------------------------------------------------------
(* Outcomes of promises *)

\* a promise: resolved with a value or a list, rejected with an error, or one
\* that nothing can settle any more ("pending")
Resolved(value, list) == [state |-> "resolved", value |-> value, list |-> list]
Rejected(error) == [state |-> "rejected", value |-> error, list |-> <<>>]
Pending == [state |-> "pending", value |-> "", list |-> <<>>]

-----------------------------------------------------------------------------
(* Block: validate and getData *)

\* src/src/block.js, block.validate(): the hash is recomputed with the hash
\* field set to null and compared with the stored string
ValidateSrc(block) ==
  IF block.hash = SHA256([block EXCEPT !.hash = Null])
  THEN Resolved("true", <<>>)
  ELSE Rejected("false")

\* typeof of a stored hash; SHA256(...) without toString() is an "object"
TypeOfHash(h) == IF h = Null THEN "null" ELSE "string"

\* part_000, block.validate(): `this.hash === SHA256(JSON.stringify(this))`
\* compares the stored hash with the digest object (no toString(), and the
\* stored hash is part of what is hashed); === is false across types
ValidateAlt(block) ==
  IF TypeOfHash(block.hash) = "object" /\ block.hash = SHA256(block)
  THEN Resolved("true", <<>>)
  ELSE Rejected("false")

\* src/src/block.js validate called as `validate()`, taken off the block by
\* destructuring: `this` is undefined, `self.hash` throws inside the async
\* executor, and the promise validate() returns is never settled
ValidateDetached == Pending

\* block.validate() of the running variant
BlockValidate(block) ==
  IF variant = "src" THEN ValidateSrc(block) ELSE ValidateAlt(block)

\* block.getData(), the same in both variants
GetData(block) ==
  IF block.height > 0
  THEN Resolved("", <<DecodeBody(block.body)>>)
  ELSE Rejected("Cannot get data from Genesis block")

\* src/src/block.js getData called as `getData()`, taken off the block by
\* destructuring: `self.height` throws inside the executor
GetDataDetached == Rejected("TypeError")

-----------------------------------------------------------------------------
(* Blockchain: the read operations *)

\* index > 0 && previousBlockHash !== chain[index - 1].hash   (i is 1-based)
LinkBroken(ch, i) == i > 1 /\ ch[i].previousBlockHash # ch[i - 1].hash

\* src/src/blockchain.js validateChain: a broken link rejects; otherwise the
\* promise resolves with the array of the promises validate() returned
ValidateChainSrc(ch) ==
  IF \E i \in 1..Len(ch) : LinkBroken(ch, i)
  THEN Rejected("The chain is broken.")
  ELSE Resolved("", [i \in 1..Len(ch) |-> ValidateDetached.state])

\* part_001 validateChain, one callback of the map: true for index 0, the
\* outcome of block.validate() when the link holds, undefined otherwise
ValidateOneAlt(ch, i) ==
  IF i = 1 THEN Resolved("true", <<>>)
  ELSE IF ~LinkBroken(ch, i) THEN ValidateAlt(ch[i])
  ELSE Resolved("undefined", <<>>)

\* part_001 validateChain: Promise.all of the callbacks
ValidateChainAlt(ch) ==
  IF \E i \in 1..Len(ch) : ValidateOneAlt(ch, i).state = "rejected"
  THEN Rejected((ValidateOneAlt(ch,
          CHOOSE i \in 1..Len(ch) : ValidateOneAlt(ch, i).state = "rejected")).value)
  ELSE Resolved("", [i \in 1..Len(ch) |-> ValidateOneAlt(ch, i).value])

\* validateChain() of the running variant
ValidateChain(ch) ==
  IF variant = "src" THEN ValidateChainSrc(ch) ELSE ValidateChainAlt(ch)

\* getChainHeight()
GetChainHeight == Resolved("", <<height>>)

\* getBlockByHash(hash): the first block with that hash
GetBlockByHash(hash) ==
  IF \E i \in 1..Len(chain) : chain[i].hash = hash
  THEN Resolved("", <<chain[CHOOSE i \in 1..Len(chain) :
                          /\ chain[i].hash = hash
                          /\ \A j \in 1..(i - 1) : chain[j].hash # hash]>>)
  ELSE Rejected("Not found.")

\* getBlockByHeight(height): the first block with that height field
GetBlockByHeight(h) ==
  IF \E i \in 1..Len(chain) : chain[i].height = h
  THEN Resolved("", <<chain[CHOOSE i \in 1..Len(chain) :
                          /\ chain[i].height = h
                          /\ \A j \in 1..(i - 1) : chain[j].height # h]>>)
  ELSE Rejected("Not found")

RECURSIVE StarsReduce(_, _, _)
\* the reduce of getStarsByWalletAddress over the decoded data, in chain
\* order; {} (and the genesis string) have no address
StarsReduce(datas, walletAddress, withOwner) ==
  IF datas = <<>> THEN <<>>
  ELSE LET d == Head(datas)
           rest == StarsReduce(Tail(datas), walletAddress, withOwner)
       IN IF d.isStar /\ d.address = walletAddress
          THEN <<IF withOwner THEN [owner |-> d.address, star |-> d.star]
                              ELSE [owner |-> <<>>, star |-> d.star]>> \o rest
          ELSE rest

\* src/src/blockchain.js getStarsByWalletAddress: getData is called detached
\* for every block whose height field is > 0
GetStarsSrc(ch, walletAddress) ==
  IF \E i \in 1..Len(ch) : ch[i].height > 0
  THEN GetDataDetached
  ELSE LET result == StarsReduce([i \in 1..Len(ch) |-> GenesisData],
                                 walletAddress, FALSE)
       IN IF Len(result) = 1 THEN Rejected("No stars found")
                             ELSE Resolved("", result)

\* part_001 getStarsByWalletAddress
GetStarsAlt(ch, walletAddress) ==
  LET datas == [i \in 1..Len(ch) |->
                  IF ch[i].height > 0 THEN GetData(ch[i]).list[1]
                                      ELSE GenesisData]
      result == StarsReduce(datas, walletAddress, TRUE)
  IN IF Len(result) = 1 THEN Rejected("No stars found")
                        ELSE Resolved("", result)

\* getStarsByWalletAddress(walletAddress) of the running variant
GetStarsByWalletAddress(walletAddress) ==
  IF variant = "src" THEN GetStarsSrc(chain, walletAddress)
                     ELSE GetStarsAlt(chain, walletAddress)

-----------------------------------------------------------------------------
(* Time, challenge messages and signatures *)

\* the validity window of submitStar, in seconds
Window == IF variant = "src" THEN WindowSrc ELSE WindowAlt

\* new Date().getTime().toString().slice(0, -3): the clock values of a run
Times == {0, Window - 1, Window, Window + 1}

\* a number or NaN
Num(n) == [nan |-> FALSE, n |-> n]
NaN == [nan |-> TRUE, n |-> 0]
Minus(a, b) == IF a.nan \/ b.nan THEN NaN ELSE Num(a.n - b.n)
LessThan(a, b) == ~a.nan /\ ~b.nan /\ a.n < b.n

\* the fields between the ":" of a message; a field is digits or other text
Digits(n) == [digits |-> TRUE, n |-> n]
Text == [digits |-> FALSE, n |-> 0]
ParseInt(field) == IF field.digits THEN Num(field.n) ELSE NaN

\* requestMessageOwnershipVerification(address): `${address}:${time}:starRegistry`
RequestMessageOwnershipVerification(address) ==
  <<address, Digits(now), "starRegistry">>

\* a message with `field` between its ":"
Message(address, field) == <<address, field, "starRegistry">>

\* a well-formed signature made by `signer` over `message`
SignedBy(signer, message) ==
  [wellFormed |-> TRUE, signer |-> signer, over |-> message]

\* a signature that bitcoinMessage.verify cannot decode
Malformed == [wellFormed |-> FALSE, signer |-> <<>>, over |-> <<>>]

\* The argument lists of the submitStar calls of a run.  Every address and
\* star with a challenge issued at time 0 and signed by the address; and, for
\* one address, a signature by someone else, a malformed signature, a
\* message stamped later than every clock value, and a message whose second
\* field is no number.
SubmitInputs ==
  { [address |-> a, message |-> Message(a, Digits(0)),
     signature |-> SignedBy(a, Message(a, Digits(0))), star |-> s] :
       a \in Addresses, s \in Stars }
  \cup
  { [address |-> <<65>>, message |-> Message(<<65>>, f),
     signature |-> SignedBy(<<65>>, Message(<<65>>, f)), star |-> <<97>>] :
       f \in {Digits(Window + 2), Text} }
  \cup
  { [address |-> <<65>>, message |-> Message(<<65>>, Digits(0)),
     signature |-> g, star |-> <<97>>] :
       g \in {SignedBy(<<66>>, Message(<<65>>, Digits(0))), Malformed} }

\* bitcoinMessage.verify(message, address, signature): true, false, or it
\* throws on a malformed signature
BitcoinVerify(message, address, signature) ==
  IF ~signature.wellFormed THEN "throw"
  ELSE IF signature.signer = address /\ signature.over = message THEN "true"
  ELSE "false"

-----------------------------------------------------------------------------
(* Calls: the promise of each submitStar call, and of the constructor's    *)
(* initializeChain (call 0)                                                *)

Calls == 0..MaxCalls

\* pc: "idle" (not called yet), "validating" (_addBlock awaits validateChain),
\* "hashing" (_addBlock awaits the digest), "done" (no code of the call is
\* left to run).  result: the state of the promise the call returned.
\* at, during, chainAtCall (history): the clock, the calls in flight and the
\* chain when the call was made.
IdleCall ==
  [pc |-> "idle", kind |-> "none", address |-> <<>>, star |-> <<>>,
   message |-> <<>>, signature |-> <<>>, at |-> 0, during |-> {},
   chainAtCall |-> <<>>,
   block |-> NewBlock(GenesisData), digest |-> Null, validations |-> Pending,
   result |-> "pending", error |-> ""]

InFlight == { c \in Calls : calls[c].pc \in {"validating", "hashing"} }

\* AddBlockSync without the link to the previous block
AddBlockSyncNoLink(block, h, ch, t) ==
  LET h1 == h + 1
      threw == h1 > 0 /\ ~(h1 \in 1..Len(ch))
      b1 == [block EXCEPT !.time = t]
      b2 == IF h1 > 0 /\ ~threw THEN [b1 EXCEPT !.height = h1] ELSE b1
  IN [threw |-> threw, height |-> h1, block |-> b2, digest |-> SHA256(b2)]

\* the body of _addBlock from the time stamp to the digest, run without a
\* break: reading chain[height - 1].hash throws when there is no such block
AddBlockSync(block, h, ch, t) ==
  LET h1 == h + 1
      threw == h1 > 0 /\ ~(h1 \in 1..Len(ch))
      b1 == [block EXCEPT !.time = t]
      b2 == IF h1 > 0 /\ ~threw
            THEN [b1 EXCEPT !.previousBlockHash = ch[h1].hash, !.height = h1]
            ELSE b1
  IN [threw |-> threw, height |-> h1, block |-> b2, digest |-> SHA256(b2)]

\* the call after AddBlockSync: rejected by the catch, or waiting at the
\* await of the digest
AfterSync(call, r) ==
  IF r.threw
  THEN [call EXCEPT !.pc = "done", !.result = "rejected", !.error = "TypeError",
                    !.block = r.block]
  ELSE [call EXCEPT !.pc = "hashing", !.block = r.block, !.digest = r.digest]

\* _addBlock(block) up to its first await.  src: the whole synchronous part.
\* alt: validateChain() is started on the chain as it is now
AddBlockCall(call, block, h, ch, t) ==
  IF variant = "src"
  THEN LET r == AddBlockSync(block, h, ch, t)
       IN [call |-> AfterSync(call, r), height |-> r.height]
  ELSE [call |-> [call EXCEPT !.pc = "validating", !.block = block,
                              !.validations = ValidateChainAlt(ch)],
        height |-> h]

\* validations.every((isValid) => isValid)
EveryValid(list) == \A i \in 1..Len(list) : list[i] = "true"

-----------------------------------------------------------------------------
(* The state machine *)

\* new Blockchain(): chain = [], height = -1, and initializeChain() run up to
\* the first await of its _addBlock
Init ==
  /\ variant \in Variants
  /\ now = 0
  /\ chain = <<>>
  /\ origin = <<>>
  /\ tampers = {}
  /\ LET genesis == [IdleCall EXCEPT !.kind = "genesis"]
         r == AddBlockCall(genesis, NewBlock(GenesisData), -1, <<>>, 0)
     IN /\ height = r.height
        /\ calls = [c \in Calls |-> IF c = 0 THEN r.call ELSE IdleCall]

\* the genesis block is in the chain
Initialized == calls[0].pc = "done"

\* The clock moves on.  The awaits of a call are settled by microtasks of
\* the same turn of the event loop, so the clock (whole seconds) is taken not
\* to move while a call is in flight.
Tick ==
  /\ InFlight = {}
  /\ \E t \in Times : t > now /\ now' = t
  /\ UNCHANGED <<variant, chain, height, calls, origin, tampers>>

\* submitStar(address, message, signature, star), up to its first await
SubmitStar(c, address, message, signature, star) ==
  /\ Initialized
  /\ calls[c].pc = "idle"
  /\ \A d \in 1..(c - 1) : calls[d].pc # "idle"
  /\ LET messageSentTime == ParseInt(message[2])
         currentTime == Num(now)
         call == [IdleCall EXCEPT !.kind = "submit", !.address = address,
                    !.star = star, !.message = message,
                    !.signature = signature, !.at = now, !.during = InFlight,
                    !.chainAtCall = chain]
         inTime == LessThan(Minus(currentTime, messageSentTime), Num(Window))
         verified == IF inTime THEN BitcoinVerify(message, address, signature)
                               ELSE "false"
     IN IF verified = "throw"
        THEN /\ calls' = [calls EXCEPT ![c] =
                   [call EXCEPT !.pc = "done", !.result = "rejected",
                                !.error = "verify"]]
             /\ height' = height
        ELSE IF verified = "true"
        THEN LET r == AddBlockCall(call, NewBlock(StarData(star, address)),
                                   height, chain, now)
             IN /\ calls' = [calls EXCEPT ![c] = r.call]
                /\ height' = r.height
        ELSE \* neither resolve nor reject is called
             /\ calls' = [calls EXCEPT ![c] = [call EXCEPT !.pc = "done"]]
             /\ height' = height
  /\ UNCHANGED <<variant, chain, now, origin, tampers>>

\* part_001 _addBlock after `await self.validateChain()`
AddBlockValidated(c) ==
  /\ calls[c].pc = "validating"
  /\ LET call == calls[c]
         v == call.validations
     IN IF v.state = "rejected"
        THEN /\ calls' = [calls EXCEPT ![c] =
                   [call EXCEPT !.pc = "done", !.result = "rejected",
                                !.error = v.value]]
             /\ height' = height
        ELSE IF height = -1 \/ EveryValid(v.list)
        THEN LET r == AddBlockSync(call.block, height, chain, now)
             IN /\ calls' = [calls EXCEPT ![c] = AfterSync(call, r)]
                /\ height' = r.height
        ELSE \* neither resolve nor reject is called
             /\ calls' = [calls EXCEPT ![c] = [call EXCEPT !.pc = "done"]]
             /\ height' = height
  /\ UNCHANGED <<variant, chain, now, origin, tampers>>

\* AddBlockPush with unshift in place of push
AddBlockPushUnshift(c) ==
  /\ calls[c].pc = "hashing"
  /\ LET block == [calls[c].block EXCEPT !.hash = calls[c].digest]
     IN /\ chain' = <<block>> \o chain
        /\ origin' = <<c>> \o origin
        /\ calls' = [calls EXCEPT ![c] =
              [@ EXCEPT !.pc = "done", !.result = "resolved", !.block = block]]
  /\ UNCHANGED <<variant, height, now, tampers>>

\* _addBlock after the await of the digest: block.hash is set, the block is
\* pushed and the promises resolve with it
AddBlockPush(c) ==
  /\ calls[c].pc = "hashing"
  /\ LET block == [calls[c].block EXCEPT !.hash = calls[c].digest]
     IN /\ chain' = Append(chain, block)
        /\ origin' = Append(origin, c)
        /\ calls' = [calls EXCEPT ![c] =
              [@ EXCEPT !.pc = "done", !.result = "resolved", !.block = block]]
  /\ UNCHANGED <<variant, height, now, tampers>>

Next ==
  \/ Tick
  \/ \E c \in Calls \ {0}, in \in SubmitInputs :
       SubmitStar(c, in.address, in.message, in.signature, in.star)
  \/ \E c \in Calls : AddBlockValidated(c)
  \/ \E c \in Calls : AddBlockPush(c)

Spec == Init /\ [][Next]_vars

-----------------------------------------------------------------------------
(* Tampering: chain is a public field of the Blockchain object and a block *)
(* is a plain object, so other code of the process can overwrite a stored  *)
(* field.  Only SpecTamper has this action.                                *)

TamperFields == {"hash", "height", "body", "time", "previousBlockHash"}

\* a hash string that is the digest of no block of a run
Forged ==
  << [hash |-> Null, height |-> -1, body |-> EncodeBody(GenesisData),
      time |-> 0, previousBlockHash |-> Null] >>

\* the values a field is overwritten with
TamperValues(block, field) ==
  CASE field = "hash" -> {Forged, Null}
    [] field = "previousBlockHash" -> {Forged, Null}
    [] field = "height" -> {block.height + 1, 0}
    [] field = "time" -> {block.time + 1}
    [] field = "body" -> {EncodeBody(StarData(<<97>>, <<66>>)),
                          EncodeBody(GenesisData)}

Tamper(i, field, v) ==
  /\ Cardinality(tampers) < MaxTampers
  /\ i \in 1..Len(chain)
  /\ v \in TamperValues(chain[i], field)
  /\ v # chain[i][field]
  /\ chain' = [chain EXCEPT ![i][field] = v]
  /\ tampers' = tampers \cup {[pos |-> i - 1, field |-> field]}
  /\ UNCHANGED <<variant, height, now, calls, origin>>

NextTamper ==
  \/ Next
  \/ \E i \in 1..Len(chain), field \in TamperFields :
       \E v \in TamperValues(chain[i], field) : Tamper(i, field, v)

SpecTamper == Init /\ [][NextTamper]_vars

-----------------------------------------------------------------------------
(* Properties *)

Submits == Calls \ {0}

\* the admission condition as the specification states it: the time elapsed
\* since the message's time stamp is below the window and the signature is a
\* valid signature by `address` over `message`
Admissible(call) ==
  /\ LessThan(Minus(Num(call.at), ParseInt(call.message[2])), Num(Window))
  /\ BitcoinVerify(call.message, call.address, call.signature) = "true"

\* the stars submitted for `address` by the calls that pushed a block, in
\* chain order
RECURSIVE SubmittedStars(_, _)
SubmittedStars(i, address) ==
  IF i > Len(chain) THEN <<>>
  ELSE (IF origin[i] # 0 /\ calls[origin[i]].address = address
        THEN <<calls[origin[i]].star>> ELSE <<>>)
       \o SubmittedStars(i + 1, address)

\* a record fails validation as section 4.2 of the specification defines it:
\* a broken link, or a hash that is not the digest of the other fields
RecordFails(ch, i) ==
  \/ LinkBroken(ch, i)
  \/ ch[i].hash # SHA256([ch[i] EXCEPT !.hash = Null])

\* some record behind the genesis block fails validation
ChainFails(ch) == \E i \in 2..Len(ch) : RecordFails(ch, i)

\* C1: on a ledger changed only through the append protocol, validateChain
\* completes with one success per stored record: every link holds and every
\* record validates itself.
C1_ValidateChainAllSuccess ==
  Len(chain) > 0 =>
    LET v == ValidateChain(chain)
    IN /\ v.state = "resolved"
       /\ Len(v.list) = Len(chain)
       /\ \A i \in 1..Len(chain) : v.list[i] = "true"
       /\ \A i \in 2..Len(chain) :
            ~LinkBroken(chain, i) /\ BlockValidate(chain[i]).state = "resolved"

\* C2: after one stored field of an appended record at position k was
\* changed, validate() of record k fails and validateChain reports a failure
\* at position k and success at every lower position.
C2_TamperReportedAtPosition ==
  \A t \in tampers :
    (tampers = {t} /\ t.pos >= 1) =>
      LET k == t.pos + 1
          v == ValidateChain(chain)
      IN /\ BlockValidate(chain[k]).state = "rejected"
         /\ v.state = "resolved"
         /\ Len(v.list) = Len(chain)
         /\ v.list[k] # "true"
         /\ \A j \in 1..(k - 1) : v.list[j] = "true"

\* C3: a submitStar call made while an existing record fails validation
\* changes neither height nor the records, in any of its steps.
C3_NoAppendOnInvalidChain ==
  [][ \A c \in Submits :
        (calls'[c] # calls[c] /\ ChainFails(calls'[c].chainAtCall))
          => (chain' = chain /\ height' = height) ]_vars

\* C4: a submitStar call whose message is inside the window and whose
\* signature verifies goes on to push exactly one block, holding
\* {star, address}, and resolves; any other call leaves chain and height as
\* they were.
C4_SubmitAppendsIffAdmitted ==
  [][ \A c \in Submits :
        /\ (calls[c].pc = "idle" /\ calls'[c].pc # "idle") =>
             IF Admissible(calls'[c])
             THEN calls'[c].result # "rejected"
             ELSE chain' = chain /\ height' = height
                  /\ calls'[c].pc = "done"
        /\ (calls[c].pc # "done" /\ calls'[c].pc = "done"
              /\ Admissible(calls'[c])) =>
             /\ calls'[c].result = "resolved"
             /\ Len(chain') = Len(chain) + 1
             /\ chain'[Len(chain')].body =
                  EncodeBody(StarData(calls'[c].star, calls'[c].address)) ]_vars

\* C5: for every address, getStarsByWalletAddress resolves with exactly the
\* stars submitted for that address, in chain order, whatever their number.
C5_StarsByOwner ==
  \A a \in Addresses :
    LET out == GetStarsByWalletAddress(a)
    IN /\ out.state = "resolved"
       /\ [i \in 1..Len(out.list) |-> out.list[i].star] = SubmittedStars(1, a)

\* C6: getData() rejects with the genesis error for the block at position 0
\* and, for every other stored block, resolves with the data given to its
\* constructor.
C6_DecodeRoundTrip ==
  \A i \in 1..Len(chain) :
    IF i = 1
    THEN GetData(chain[i]) = Rejected("Cannot get data from Genesis block")
    ELSE GetData(chain[i]) =
           Resolved("", <<StarData(calls[origin[i]].star,
                                    calls[origin[i]].address)>>)

\* C7: once the genesis block is stored, height is len(chain) - 1 in every
\* state, also while an append waits at an await and after an append failed.
C7_HeightIsLenMinusOne ==
  Initialized => height = Len(chain) - 1

\* two calls overlap when one was made while the other was in flight
Overlapped(c) ==
  calls[c].during # {} \/ \E d \in Submits : c \in calls[d].during

\* C8: admitted submitStar calls that overlap all resolve, and when they are
\* over the chain is the one some sequential run gives: one block per
\* admitted call behind the genesis block, each at its own position.
C8_OverlappingAppendsSerialize ==
  /\ \A c \in Submits :
       (calls[c].pc = "done" /\ Admissible(calls[c]) /\ Overlapped(c))
         => calls[c].result = "resolved"
  /\ (InFlight = {} /\ \E c \in Submits : Overlapped(c)) =>
       /\ Len(chain) =
            1 + Cardinality({c \in Submits :
                               calls[c].pc = "done" /\ Admissible(calls[c])})
       /\ \A i \in 1..Len(chain) : chain[i].height = i - 1

\* C9: the stored chain is well linked in every state: the block at index i
\* has height i and a hash, the block at index 0 has previousBlockHash null,
\* and every later block holds the hash of the block before it.
C9_ChainWellLinked ==
  \A i \in 1..Len(chain) :
    /\ chain[i].height = i - 1
    /\ chain[i].hash # Null
    /\ (i = 1 => chain[i].previousBlockHash = Null)
    /\ (i > 1 => chain[i].previousBlockHash = chain[i - 1].hash)

\* a state where C9's case happened: two blocks were appended behind the
\* genesis block, each linked to the one before
C9_Witness ==
  /\ Len(chain) = 3
  /\ chain[3].height = 2
  /\ chain[3].previousBlockHash = chain[2].hash
  /\ chain[2].previousBlockHash = chain[1].hash

\* C10: a call that has no code left to run has settled its promise:
\* resolved with the block or rejected with an error.
C10_EveryCallSettles ==
  \A c \in Calls :
    calls[c].pc = "done" => calls[c].result \in {"resolved", "rejected"}

\* C11: the step in which a call is rejected changes neither height nor the
\* records; and an admissible submitStar made on its own after another call
\* failed resolves and pushes its block at position len(chain).
C11_FailedCallLeavesLedger ==
  [][ \A c \in Submits :
        /\ (calls[c].result # "rejected" /\ calls'[c].result = "rejected")
             => (chain' = chain /\ height' = height)
        /\ ( /\ calls[c].pc # "done" /\ calls'[c].pc = "done"
             /\ Admissible(calls'[c])
             /\ calls'[c].during = {}
             /\ \A d \in Submits : c \notin calls[d].during
             /\ \E d \in Submits \ {c} : calls[d].result = "rejected" )
             => /\ calls'[c].result = "resolved"
                /\ chain' = Append(chain, calls'[c].block)
                /\ calls'[c].block.height = Len(chain) ]_vars

\* C12: on a chain with a broken link or a hash mismatch validateChain still
\* resolves, with one entry per stored record, each a success or a failure
\* value.
C12_ValidateChainListsEveryRecord ==
  ChainFails(chain) =>
    LET v == ValidateChain(chain)
    IN /\ v.state = "resolved"
       /\ Len(v.list) = Len(chain)
       /\ \A i \in 1..Len(chain) : v.list[i] \in {"true", "false"}

-----------------------------------------------------------------------------
(* initializeChain() called again from outside *)

\* initializeChain(), up to its first await.  The guard reads this.height,
\* which part_001 raises only after the await of validateChain.
InitializeChain(c) ==
  /\ calls[c].pc = "idle"
  /\ \A d \in 1..(c - 1) : calls[d].pc # "idle"
  /\ LET call == [IdleCall EXCEPT !.kind = "initialize", !.at = now,
                    !.during = InFlight, !.chainAtCall = chain]
     IN IF height = -1
        THEN LET r == AddBlockCall(call, NewBlock(GenesisData), height,
                                   chain, now)
             IN /\ calls' = [calls EXCEPT ![c] = r.call]
                /\ height' = r.height
        ELSE /\ calls' = [calls EXCEPT ![c] =
                   [call EXCEPT !.pc = "done", !.result = "resolved"]]
             /\ height' = height
  /\ UNCHANGED <<variant, chain, now, origin, tampers>>

NextInit ==
  \/ Next
  \/ \E c \in Calls \ {0} : InitializeChain(c)

SpecInit == Init /\ [][NextInit]_vars

\* the block at position 0 holds the genesis payload, and no other block does
OneGenesis(ch) ==
  \A i \in 1..Len(ch) : (ch[i].body = EncodeBody(GenesisData)) <=> (i = 1)

\* C13: an initializeChain call made on a non-empty ledger changes neither
\* height nor the records, and whatever initializeChain calls are made the
\* ledger holds the genesis payload at position 0 and nowhere else.
C13_InitializeIdempotent ==
  [][ /\ \A c \in Calls \ {0} :
           (calls[c].pc = "idle" /\ calls'[c].kind = "initialize"
              /\ chain # <<>>)
             => (chain' = chain /\ height' = height)
      /\ OneGenesis(chain') ]_vars

\* C14: in every step the records before the step are a prefix of the records
\* after it, at most one record is added and only by the step that resolves
\* one call with that record, and height does not go down.
C14_AppendOnly ==
  [][ /\ Len(chain') \in {Len(chain), Len(chain) + 1}
      /\ SubSeq(chain', 1, Len(chain)) = chain
      /\ height' >= height
      /\ Len(chain') = Len(chain) + 1 =>
           \E c \in Calls :
             /\ calls[c].result = "pending"
             /\ calls'[c].result = "resolved"
             /\ calls'[c].block = chain'[Len(chain')]
             /\ \A d \in Calls \ {c} : calls'[d] = calls[d] ]_vars

\* two blocks were appended one after the other to the genesis block
C14_Witness ==
  /\ Len(chain) = 3
  /\ height = 2
  /\ origin = <<0, 1, 2>>
  /\ \A i \in 1..3 : chain[i].height = i - 1

\* the time that had elapsed since the time stamp of the call's message when
\* the call was made
Elapsed(call) == Minus(Num(call.at), ParseInt(call.message[2]))

\* C15: a submitStar call pushed a block only if the time stamp of its
\* message is a number and the time elapsed since then is at least 0 and
\* below the window.
C15_AdmitsOnlyInsideWindow ==
  \A i \in 1..Len(origin) :
    calls[origin[i]].kind = "submit" =>
      LET e == Elapsed(calls[origin[i]])
      IN /\ e # NaN
         /\ LessThan(Num(0), e) \/ e = Num(0)
         /\ LessThan(e, Num(Window))

\* C16: when the same address, message and signature are submitted by two
\* calls, each made with no other call in flight and each inside the window
\* with a valid signature, both calls resolve and each pushes one block.
\* (requestMessageOwnershipVerification is an operator of the clock and its
\* argument: it reads and writes nothing of the ledger.)
C16_SameTripleAppendsEachTime ==
  \A c, d \in Submits :
    ( /\ c < d
      /\ calls[c].kind = "submit" /\ calls[d].kind = "submit"
      /\ calls[c].pc = "done" /\ calls[d].pc = "done"
      /\ calls[c].during = {} /\ calls[d].during = {}
      /\ calls[c].address = calls[d].address
      /\ calls[c].message = calls[d].message
      /\ calls[c].signature = calls[d].signature
      /\ Admissible(calls[c]) /\ Admissible(calls[d]) )
    => /\ calls[c].result = "resolved" /\ calls[d].result = "resolved"
       /\ \E i, j \in 1..Len(origin) : i < j /\ origin[i] = c /\ origin[j] = d

\* C17: after one change to the genesis block alone, validateChain reports the
\* genesis block valid; a change to its body, time or height leaves every
\* outcome a success and an admissible submitStar made on its own afterwards
\* still resolves; a change to its hash shows only as a failure at position 1.
C17_GenesisNotRecomputed ==
  \A t \in tampers :
    (tampers = {t} /\ t.pos = 0) =>
      LET v == ValidateChain(chain)
      IN /\ v.state = "resolved"
         /\ Len(v.list) = Len(chain)
         /\ v.list[1] = "true"
         /\ t.field \in {"body", "time", "height"} =>
              /\ \A i \in 1..Len(chain) : v.list[i] = "true"
              /\ \A c \in Submits :
                   ( /\ calls[c].pc = "done"
                     /\ Admissible(calls[c])
                     /\ ~Overlapped(c)
                     /\ calls[c].chainAtCall # <<>>
                     /\ calls[c].chainAtCall[1] # calls[0].block )
                   => calls[c].result = "resolved"
         /\ t.field = "hash" =>
              \A i \in 2..Len(chain) : (v.list[i] = "true") <=> (i # 2)

====
